---- MODULE Spec2Model ----
(***************************************************************************)
(* Token lifecycle manager of the OAuth subsystem (auth/tokenManager.ts,   *)
(* auth/oauth.ts).  Each manager owns a storage (an in-memory key -> token *)
(* map) and a static OAuthConfig.  getValidToken / getAuthHeader are async *)
(* functions: they are modelled as calls that advance from one await to    *)
(* the next, so that calls on the same key interleave as they do on the    *)
(* event loop.  Values that cross the token endpoint are JavaScript values *)
(* (undefined, strings, numbers) with JavaScript truthiness.               *)
(***************************************************************************)
EXTENDS Integers, Sequences, FiniteSets, TLC

VARIABLES
    now,      \* Date.now(), in ms
    store,    \* store[m][k]: the Map inside manager m's memory storage
    calls,    \* calls[c]: one getValidToken / getAuthHeader invocation
    network,  \* the token-endpoint requests issued so far
    writes,   \* how many setToken / deleteToken calls the callers have made
    request,  \* the HTTP request the Express middleware chain is handling
    parsing,  \* a token-endpoint payload handed to parseTokenResponse, and its result
    flow,     \* the AuthorizationStates created and what was done with them
    written,  \* what the latest setToken / deleteToken call returned
    generated \* the bytes randomBytes gave generateCodeVerifier, and what it returned

vars == <<now, store, calls, network, writes, request, parsing, flow, written, generated>>

----------------------------------------------------------------------------
(* Bounds of the model *)

MaxCalls == 2      \* invocations of getAuthHeader / getValidToken on one key
TenantCalls == 1   \* invocations when the callers range over managers and keys
MaxWrites == 2     \* setToken / deleteToken calls
MaxTicks == 1      \* steps of the clock

StartTime == 100 * 1000
TickMs == 10 * 1000

Managers == {"m1", "m2"}
Keys == {"u1", "u2"}
CallIds == 1..MaxCalls

----------------------------------------------------------------------------
(* JavaScript values *)

JUndef == [t |-> "undefined"]
JNull == [t |-> "null"]
JObj(fields) == [t |-> "object", f |-> fields]
JStr(x) == [t |-> "string", s |-> x]
JNum(x) == [t |-> "number", n |-> x]

\* JavaScript truthiness: undefined, null, "" and 0 are falsy
Truthy(v) ==
    CASE v.t = "undefined" -> FALSE
      [] v.t = "null" -> FALSE
      [] v.t = "string" -> Len(v.s) > 0
      [] v.t = "number" -> v.n # 0
      [] OTHER -> TRUE

\* typeof v
TypeOf(v) == IF v.t = "null" THEN "object" ELSE v.t

\* a ?? b
Nullish(a, b) == IF a.t \in {"undefined", "null"} THEN b ELSE a

\* String(v) / template-literal interpolation
JToString(v) ==
    CASE v.t = "undefined" -> "undefined"
      [] v.t = "null" -> "null"
      [] v.t = "string" -> v.s
      [] v.t = "number" -> ToString(v.n)
      [] OTHER -> "[object Object]"

----------------------------------------------------------------------------
(* core/result.ts, core/errors.ts *)

ok(v) == [tag |-> "Ok", value |-> v]
err(e) == [tag |-> "Err", error |-> e]
Pending == [tag |-> "Pending"]

\* An exception that leaves the function, or the rejection of its promise
Thrown(e) == [tag |-> "Thrown", error |-> e]

tokenError(message) == [tag |-> "TokenError", message |-> message]
oauthError(message, code) == [tag |-> "OAuthError", message |-> message, code |-> code]

----------------------------------------------------------------------------
(* core/types.ts *)

TokenSet(a, tt, e, r, sc) ==
    [accessToken |-> a, tokenType |-> tt, expiresAt |-> e, refreshToken |-> r, scope |-> sc]

\* Static configuration of each manager
config(m) ==
    IF m = "m1"
    THEN [clientId |-> "c1", clientSecret |-> "s1", tokenUrl |-> "https://auth1/token"]
    ELSE [clientId |-> "c2", clientSecret |-> "s2", tokenUrl |-> "https://auth2/token"]

----------------------------------------------------------------------------
(* auth/oauth.ts *)

buildRefreshTokenBody(cfg, refreshToken) ==
    [grant_type |-> "refresh_token",
     refresh_token |-> refreshToken,
     client_id |-> cfg.clientId,
     client_secret |-> cfg.clientSecret]

\* A JSON object received from the token endpoint
Payload(e, ed, a, tt, ei, r, sc) ==
    JObj([error |-> e, error_description |-> ed, access_token |-> a,
          token_type |-> tt, expires_in |-> ei, refresh_token |-> r, scope |-> sc])

\* Faulty variant: access_token is looked at before the error field
parseTokenResponseTokenFirst(response, t) ==
    IF ~Truthy(response) \/ TypeOf(response) # "object"
    THEN err(oauthError("Invalid token response format", JUndef))
    ELSE LET data == response.f IN
         IF Truthy(data.access_token) /\ TypeOf(data.access_token) = "string"
         THEN ok(TokenSet(data.access_token,
                          Nullish(data.token_type, JStr("Bearer")),
                          IF Truthy(data.expires_in)
                              THEN JNum(t + data.expires_in.n * 1000)
                              ELSE JUndef,
                          data.refresh_token,
                          data.scope))
         ELSE IF Truthy(data.error)
         THEN err(oauthError(JToString(Nullish(data.error_description, data.error)),
                             data.error))
         ELSE err(oauthError("Missing access_token in response", JUndef))

parseTokenResponse(response, t) ==
    IF ~Truthy(response) \/ TypeOf(response) # "object"
    THEN err(oauthError("Invalid token response format", JUndef))
    ELSE LET data == response.f IN
         IF Truthy(data.error)
         THEN err(oauthError(JToString(Nullish(data.error_description, data.error)),
                             data.error))
         ELSE IF ~Truthy(data.access_token) \/ TypeOf(data.access_token) # "string"
         THEN err(oauthError("Missing access_token in response", JUndef))
         ELSE ok(TokenSet(data.access_token,
                          Nullish(data.token_type, JStr("Bearer")),
                          IF Truthy(data.expires_in)
                              THEN JNum(t + data.expires_in.n * 1000)
                              ELSE JUndef,
                          data.refresh_token,
                          data.scope))

DefaultBufferMs == 30 * 1000

\* Faulty variant: a token without expiresAt counts as expired
isTokenExpiredMissingExpiry(token, bufferMs, t) ==
    IF ~Truthy(token.expiresAt)
    THEN TRUE
    ELSE t >= token.expiresAt.n - bufferMs

isTokenExpired(token, bufferMs, t) ==
    IF ~Truthy(token.expiresAt)
    THEN FALSE
    ELSE t >= token.expiresAt.n - bufferMs

\* Faulty variant: only null is excluded, an undefined refresh token passes
canRefreshTokenNullOnly(token) ==
    token.refreshToken # JNull

canRefreshToken(token) ==
    token.refreshToken # JUndef /\ token.refreshToken # JNull

createAuthHeader(token) ==
    JToString(token.tokenType) \o " " \o JToString(token.accessToken)

----------------------------------------------------------------------------
(* auth/tokenManager.ts: pure helpers *)

mergeTokens(existingToken, newToken) ==
    [newToken EXCEPT !.refreshToken =
        Nullish(newToken.refreshToken, existingToken.refreshToken)]

----------------------------------------------------------------------------
(* Inputs: the tokens callers store and the ways the token endpoint answers *)

\* At StartTime: one token that is live and enters the expiry buffer one tick
\* later, one that expired long ago, one whose expiresAt is 0, one without expiry
TokenInputs ==
    { TokenSet(JStr("a0"), JStr("Bearer"), JNum(140 * 1000), JStr("r0"), JUndef),
      TokenSet(JStr("a0"), JStr("Bearer"), JNum(50 * 1000), JUndef, JUndef),
      TokenSet(JStr("a0"), JStr("Bearer"), JNum(0), JStr("r0"), JUndef),
      TokenSet(JStr("a0"), JStr("Bearer"), JUndef, JUndef, JUndef) }

JError(message) == [t |-> "error", message |-> message]

\* httpFetch rejects, response.json() rejects, or a JSON body arrives
Responses ==
    { [kind |-> "fetch_throws", e |-> JError("network down")],
      [kind |-> "json_throws", e |-> JError("Unexpected token <")],
      [kind |-> "json", body |->
          Payload(JStr("invalid_grant"), JStr("x"), JUndef, JUndef, JUndef, JUndef, JUndef)],
      [kind |-> "json", body |->
          Payload(JUndef, JUndef, JUndef, JUndef, JUndef, JUndef, JUndef)],
      [kind |-> "json", body |->
          Payload(JUndef, JUndef, JStr("a1"), JUndef, JNum(10), JUndef, JUndef)],
      [kind |-> "json", body |->
          Payload(JUndef, JUndef, JStr("a2"), JUndef, JNum(3600), JStr("r2"), JUndef)] }

----------------------------------------------------------------------------
(* auth/tokenManager.ts *)

\* storage.get(key) of the memory storage: Map.get
storageGet(m, k) == store[m][k]

\* Faulty variant: one module-level Map shared by every manager
storageSetShared(m, k, token) ==
    [mm \in Managers |-> [store[mm] EXCEPT ![k] = token]]

\* storage.set(key, token): Map.set
storageSet(m, k, token) == [store EXCEPT ![m][k] = token]

\* storage.delete(key): Map.delete
storageDelete(m, k) == [store EXCEPT ![m][k] = JUndef]

getToken(m, k) ==
    LET token == storageGet(m, k) IN
    IF token = JUndef
    THEN err(tokenError("Token not found"))
    ELSE ok(token)

\* (e) => tokenError(e instanceof Error ? e.message : fallback)
onError(e, fallback) ==
    tokenError(IF e.t = "error" THEN e.message ELSE fallback)

\* The token-endpoint request refreshTokenRequest sends for manager m
refreshRequest(m, refreshToken) ==
    [url |-> config(m).tokenUrl,
     method |-> "POST",
     contentType |-> "application/x-www-form-urlencoded",
     body |-> buildRefreshTokenBody(config(m), refreshToken)]

\* What refreshTokenRequest returns once the endpoint has answered with resp
refreshTokenResult(resp, t) ==
    IF resp.kind # "json"
    THEN err(onError(resp.e, "Token refresh request failed"))
    ELSE LET parseResult == parseTokenResponse(resp.body, t) IN
         IF parseResult.tag = "Err"
         THEN err(tokenError(parseResult.error.message))
         ELSE parseResult

\* const newToken = refreshResult.value: what getValidToken persists and returns
newTokenOf(token, refreshResult) == refreshResult.value

\* A call is getAuthHeader(state, key), whose first statement awaits
\* getValidToken(state, key): result is what getValidToken returns, header what
\* getAuthHeader returns.  tokenResult, refreshResult and newToken are
\* getValidToken's locals, resp is the answer of the token endpoint,
\* setResult what its setToken call returned, and checkedAt is Date.now() when
\* getValidToken tested the expiry.
IdleCall ==
    [pc |-> "idle", mgr |-> "-", key |-> "-", tokenResult |-> Pending,
     checkedAt |-> 0, resp |-> JUndef, refreshResult |-> Pending,
     newToken |-> JUndef, setResult |-> Pending, result |-> Pending,
     header |-> Pending]

\* No request is being handled
IdleRequest == [pc |-> "idle"]

\* parseTokenResponse has not been called
NotParsing == [pc |-> "idle"]

\* generateCodeVerifier has not been called
NotGenerated == [pc |-> "idle"]

\* No authorization flow has been started
NoFlow == [states |-> {}, callbacks |-> <<>>, requests |-> {}, urls |-> <<>>]

getAuthHeader(tokenResult) ==
    IF tokenResult.tag = "Err"
    THEN tokenResult
    ELSE ok(createAuthHeader(tokenResult.value))

\* Faulty variant: the header is formatted from the token found in the store
finishStale(call, result) ==
    [call EXCEPT !.pc = "done", !.result = result,
                 !.header = getAuthHeader(call.tokenResult)]

finish(call, result) ==
    [call EXCEPT !.pc = "done", !.result = result, !.header = getAuthHeader(result)]

Init ==
    /\ now = StartTime
    /\ store = [m \in Managers |-> [k \in Keys |-> JUndef]]
    /\ calls = [c \in CallIds |-> IdleCall]
    /\ network = {}
    /\ writes = 0
    /\ request = IdleRequest
    /\ parsing = NotParsing
    /\ flow = NoFlow
    /\ written = Pending
    /\ generated = NotGenerated

\* tryCatchAsync(fn, onError) when fn() settles with outcome
tryCatchAsync(outcome, fallback) ==
    IF outcome.tag = "Thrown"
    THEN err(onError(outcome.error, fallback))
    ELSE ok(outcome.value)

\* A storage method has run to its end: the promise resolves with undefined
Resolved == [tag |-> "Resolved", value |-> JUndef]

setToken(outcome) == tryCatchAsync(outcome, "Failed to store token")

deleteToken(outcome) == tryCatchAsync(outcome, "Failed to delete token")

\* setToken(state, key, token)
SetToken(m, k, token) ==
    /\ writes < MaxWrites
    /\ store' = storageSet(m, k, token)
    /\ writes' = writes + 1
    /\ written' = setToken(Resolved)
    /\ UNCHANGED <<request, parsing, flow, now, calls, network, generated>>

\* deleteToken(state, key)
DeleteToken(m, k) ==
    /\ writes < MaxWrites
    /\ store' = storageDelete(m, k)
    /\ writes' = writes + 1
    /\ written' = deleteToken(Resolved)
    /\ UNCHANGED <<request, parsing, flow, now, calls, network, generated>>

\* getAuthHeader -> getValidToken -> getToken run up to `await state.storage.get(key)`
Call(c, m, k) ==
    /\ calls[c].pc = "idle"
    /\ c > 1 => calls[c - 1].pc # "idle"
    /\ calls' = [calls EXCEPT ![c] =
           [IdleCall EXCEPT !.pc = "got", !.mgr = m, !.key = k,
                            !.tokenResult = getToken(m, k)]]
    /\ UNCHANGED <<request, parsing, flow, now, store, network, writes, written, generated>>

\* The token-endpoint requests call c has sent
RequestsOf(c) == {r \in network : r.call = c}

\* Faulty variant: an expired token that cannot be refreshed is returned as it is
decideStale(tokenResult, t) ==
    IF tokenResult.tag = "Err"
    THEN tokenResult
    ELSE IF ~isTokenExpired(tokenResult.value, DefaultBufferMs, t)
    THEN ok(tokenResult.value)
    ELSE IF ~canRefreshToken(tokenResult.value)
    THEN ok(tokenResult.value)
    ELSE Pending

\* getValidToken between getToken and the refresh: the result it returns at
\* once, or Pending when it goes on to refreshTokenRequest
decide(tokenResult, t) ==
    IF tokenResult.tag = "Err"
    THEN tokenResult
    ELSE IF ~isTokenExpired(tokenResult.value, DefaultBufferMs, t)
    THEN ok(tokenResult.value)
    ELSE IF ~canRefreshToken(tokenResult.value)
    THEN err(tokenError("Token expired and no refresh token available"))
    ELSE Pending

\* refreshTokenRequest calls httpFetch: one POST to the manager's token endpoint
sendRefresh(c, call) ==
    /\ calls' = [calls EXCEPT ![c] = [call EXCEPT !.pc = "fetching"]]
    /\ network' = network \cup
           {[call |-> c, seq |-> Cardinality(RequestsOf(c)) + 1,
             req |-> refreshRequest(call.mgr, call.tokenResult.value.refreshToken)]}

\* Faulty variant: single-flight, a call joins the refresh already in flight on its key
CheckSingleFlight(c) ==
    LET call == [calls[c] EXCEPT !.checkedAt = now]
        decision == decide(call.tokenResult, now)
    IN
    /\ call.pc = "got"
    /\ IF decision # Pending
       THEN /\ calls' = [calls EXCEPT ![c] = finish(call, decision)]
            /\ UNCHANGED network
       ELSE IF \E d \in CallIds \ {c} :
                   /\ calls[d].pc = "fetching"
                   /\ calls[d].mgr = call.mgr
                   /\ calls[d].key = call.key
       THEN /\ calls' = [calls EXCEPT ![c] = [call EXCEPT !.pc = "fetching"]]
            /\ UNCHANGED network
       ELSE sendRefresh(c, call)
    /\ UNCHANGED <<request, parsing, flow, now, store, writes, written, generated>>

\* getValidToken resumes after getToken: returns, fails, or sends the refresh request
Check(c) ==
    LET call == [calls[c] EXCEPT !.checkedAt = now]
        decision == decide(call.tokenResult, now)
    IN
    /\ call.pc = "got"
    /\ IF decision # Pending
       THEN /\ calls' = [calls EXCEPT ![c] = finish(call, decision)]
            /\ UNCHANGED network
       ELSE sendRefresh(c, call)
    /\ UNCHANGED <<request, parsing, flow, now, store, writes, written, generated>>

\* Faulty variant: a failed refresh is sent once more before the failure is returned
onRefreshFailureRetry(c, call, refreshResult) ==
    IF Cardinality(RequestsOf(c)) < 2
    THEN /\ calls' = [calls EXCEPT ![c] = [call EXCEPT !.refreshResult = Pending]]
         /\ network' = network \cup
                {[call |-> c, seq |-> Cardinality(RequestsOf(c)) + 1,
                  req |-> refreshRequest(call.mgr, call.tokenResult.value.refreshToken)]}
         /\ UNCHANGED store
    ELSE /\ calls' = [calls EXCEPT ![c] = finish(call, refreshResult)]
         /\ UNCHANGED <<store, network>>

\* Faulty variant: a failed refresh evicts the expired token from the storage
onRefreshFailureEvict(c, call, refreshResult) ==
    /\ calls' = [calls EXCEPT ![c] = finish(call, refreshResult)]
    /\ store' = storageDelete(call.mgr, call.key)
    /\ UNCHANGED network

\* if (refreshResult._tag === 'Err') return refreshResult
onRefreshFailure(c, call, refreshResult) ==
    /\ calls' = [calls EXCEPT ![c] = finish(call, refreshResult)]
    /\ UNCHANGED <<store, network>>

\* await setToken(state, key, newToken): storage.set runs before the first await
onRefreshSuccess(c, call, refreshResult) ==
    LET newToken == newTokenOf(call.tokenResult.value, refreshResult) IN
    /\ calls' = [calls EXCEPT ![c] = [call EXCEPT !.pc = "stored", !.newToken = newToken,
                                                  !.setResult = setToken(Resolved)]]
    /\ store' = storageSet(call.mgr, call.key, newToken)
    /\ UNCHANGED network

\* The token endpoint answers and refreshTokenRequest returns
RefreshResponse(c, resp) ==
    LET refreshResult == refreshTokenResult(resp, now)
        call == [calls[c] EXCEPT !.resp = resp, !.refreshResult = refreshResult]
    IN
    /\ call.pc = "fetching"
    /\ IF refreshResult.tag = "Err"
       THEN onRefreshFailure(c, call, refreshResult)
       ELSE onRefreshSuccess(c, call, refreshResult)
    /\ UNCHANGED <<request, parsing, flow, now, writes, written, generated>>

\* getValidToken resumes after `await setToken(...)` and returns ok(newToken)
Return(c) ==
    LET call == calls[c] IN
    /\ call.pc = "stored"
    /\ calls' = [calls EXCEPT ![c] = finish(call, ok(call.newToken))]
    /\ UNCHANGED <<request, parsing, flow, now, store, network, writes, written, generated>>

\* Time passes
Tick ==
    /\ now < StartTime + MaxTicks * TickMs
    /\ now' = now + TickMs
    /\ UNCHANGED <<store, calls, network, writes, request, parsing, flow, written, generated>>

\* One manager, one key: every interleaving of the calls made on the same key
Next ==
    \/ \E token \in TokenInputs : SetToken("m1", "u1", token)
    \/ DeleteToken("m1", "u1")
    \/ \E c \in CallIds : Call(c, "m1", "u1")
    \/ \E c \in CallIds : Check(c)
    \/ \E c \in CallIds, resp \in Responses : RefreshResponse(c, resp)
    \/ \E c \in CallIds : Return(c)
    \/ Tick

Spec == Init /\ [][Next]_vars

\* Several managers, each with its own storage and config, and several keys
NextTenants ==
    \/ \E m \in Managers, k \in Keys, token \in TokenInputs : SetToken(m, k, token)
    \/ \E m \in Managers, k \in Keys : DeleteToken(m, k)
    \/ \E c \in 1..TenantCalls, m \in Managers, k \in Keys : Call(c, m, k)
    \/ \E c \in CallIds : Check(c)
    \/ \E c \in CallIds, resp \in Responses : RefreshResponse(c, resp)
    \/ \E c \in CallIds : Return(c)
    \/ Tick

SpecTenants == Init /\ [][NextTenants]_vars

\* What a caller-supplied storage throws or rejects with: an Error, or a
\* value that is not an Error
StorageErrors == {JError("disk full"), JStr("unavailable")}

\* setToken(state, key, token) on a storage whose set fails with e
SetTokenThrows(m, k, token, e) ==
    /\ writes < MaxWrites
    /\ writes' = writes + 1
    /\ written' = setToken(Thrown(e))
    /\ UNCHANGED <<request, parsing, flow, now, store, calls, network, generated>>

\* deleteToken(state, key) on a storage whose delete fails with e
DeleteTokenThrows(m, k, e) ==
    /\ writes < MaxWrites
    /\ writes' = writes + 1
    /\ written' = deleteToken(Thrown(e))
    /\ UNCHANGED <<request, parsing, flow, now, store, calls, network, generated>>

\* getAuthHeader -> getValidToken -> getToken on a storage whose get fails
\* with e: `await state.storage.get(key)` is in no try block, so getToken
\* rejects with e, and so do getValidToken and getAuthHeader awaiting it
CallGetThrows(c, m, k, e) ==
    /\ calls[c].pc = "idle"
    /\ c > 1 => calls[c - 1].pc # "idle"
    /\ calls' = [calls EXCEPT ![c] =
           [IdleCall EXCEPT !.pc = "done", !.mgr = m, !.key = k,
                            !.tokenResult = Thrown(e), !.result = Thrown(e),
                            !.header = Thrown(e)]]
    /\ UNCHANGED <<request, parsing, flow, now, store, network, writes, written, generated>>

\* The token endpoint answers with a token and storage.set fails with e:
\* setToken returns the failure to getValidToken, which awaits it and goes on
RefreshResponseSetThrows(c, resp, e) ==
    LET refreshResult == refreshTokenResult(resp, now)
        call == [calls[c] EXCEPT !.resp = resp, !.refreshResult = refreshResult]
    IN
    /\ call.pc = "fetching"
    /\ refreshResult.tag = "Ok"
    /\ calls' = [calls EXCEPT ![c] =
           [call EXCEPT !.pc = "stored",
                        !.newToken = newTokenOf(call.tokenResult.value, refreshResult),
                        !.setResult = setToken(Thrown(e))]]
    /\ UNCHANGED <<request, parsing, flow, now, store, network, writes, written, generated>>

\* One manager, one key, on a storage whose methods may fail
NextFaulty ==
    \/ \E token \in TokenInputs : SetToken("m1", "u1", token)
    \/ DeleteToken("m1", "u1")
    \/ \E c \in CallIds : Call(c, "m1", "u1")
    \/ \E c \in CallIds : Check(c)
    \/ \E c \in CallIds, resp \in Responses : RefreshResponse(c, resp)
    \/ \E c \in CallIds : Return(c)
    \/ Tick
    \/ \E token \in TokenInputs, e \in StorageErrors : SetTokenThrows("m1", "u1", token, e)
    \/ \E e \in StorageErrors : DeleteTokenThrows("m1", "u1", e)
    \/ \E c \in CallIds, e \in StorageErrors : CallGetThrows(c, "m1", "u1", e)
    \/ \E c \in CallIds, resp \in Responses, e \in StorageErrors :
           RefreshResponseSetThrows(c, resp, e)

SpecFaulty == Init /\ [][NextFaulty]_vars

----------------------------------------------------------------------------
(* Vocabulary of the properties *)

\* The expiry rule as specified: no expiresAt never expires, otherwise the token
\* is expired once t >= expiresAt - bufferMs
ExpiryRule(token, bufferMs, t) ==
    /\ token.expiresAt # JUndef
    /\ t >= token.expiresAt.n - bufferMs

HasRefreshToken(token) == token.refreshToken \notin {JUndef, JNull}

NotFound == err(tokenError("Token not found"))
ExpiredNoRefresh == err(tokenError("Token expired and no refresh token available"))

\* Call c has received a successful refresh response
Refreshed(c) == calls[c].refreshResult.tag = "Ok"

\* The token call c found in the store, and the token parsed from its refresh response
Old(c) == calls[c].tokenResult.value
Fresh(c) == calls[c].refreshResult.value

\* Call c found a token that getValidToken treated as expired when it tested it
FoundExpired(c) ==
    /\ calls[c].pc \in {"fetching", "stored", "done"}
    /\ calls[c].tokenResult.tag = "Ok"
    /\ isTokenExpired(Old(c), DefaultBufferMs, calls[c].checkedAt)

\* Call c takes the step in which getValidToken leaves the expiry test
ChecksNow(c) == calls[c].pc = "got" /\ calls'[c].pc # "got"

----------------------------------------------------------------------------
(* C1 *)

\* C1: after a successful refresh of an expired, refreshable token, the value
\* getValidToken passes to storage.set and the value it returns both equal
\* mergeTokens(old, fresh); with refresh_token omitted by the endpoint they
\* keep the old refresh token.
C1_RefreshPersistsMerge ==
    \A c \in CallIds :
        Refreshed(c) =>
            /\ calls[c].pc \in {"stored", "done"} =>
                   calls[c].newToken = mergeTokens(Old(c), Fresh(c))
            /\ calls[c].pc = "done" =>
                   calls[c].result = ok(mergeTokens(Old(c), Fresh(c)))

----------------------------------------------------------------------------
(* C2 *)

\* C2: when the token getValidToken found is not expired under the expiry rule
\* (30 s buffer), the call returns exactly that token, sends no token-endpoint
\* request and leaves every entry of every store unchanged.
C2_UnexpiredReturnedUnchanged ==
    [][\A c \in CallIds :
          ( /\ ChecksNow(c)
            /\ calls[c].tokenResult.tag = "Ok"
            /\ ~ExpiryRule(Old(c), 30000, now) )
          => /\ calls'[c].pc = "done"
             /\ calls'[c].result = ok(Old(c))
             /\ network' = network
             /\ store' = store]_vars

\* A call has returned the live token it found, which is still the stored one
C2_Witness ==
    \E c \in CallIds :
        /\ calls[c].pc = "done"
        /\ calls[c].tokenResult.tag = "Ok"
        /\ Old(c).expiresAt # JUndef
        /\ ~ExpiryRule(Old(c), 30000, calls[c].checkedAt)
        /\ calls[c].result = ok(Old(c))
        /\ store[calls[c].mgr][calls[c].key] = Old(c)
        /\ RequestsOf(c) = {}

----------------------------------------------------------------------------
(* C3 *)

\* C3: refreshes are not coalesced per key: every call that found an expired,
\* refreshable token has sent a token-endpoint request of its own, whatever the
\* other calls on the key are doing, so the requests sent are as many as such calls.
C3_NoCoalescing ==
    /\ \A c \in CallIds :
           (FoundExpired(c) /\ HasRefreshToken(Old(c))) => RequestsOf(c) # {}
    /\ Cardinality({r.call : r \in network}) =
           Cardinality({c \in CallIds : FoundExpired(c) /\ HasRefreshToken(Old(c))})

\* Two overlapping calls on one key have both seen the same expired token and
\* both have a refresh request with the same refresh token in flight
C3_Witness ==
    \E c, d \in CallIds :
        /\ c # d
        /\ calls[c].pc = "fetching" /\ calls[d].pc = "fetching"
        /\ calls[c].mgr = calls[d].mgr /\ calls[c].key = calls[d].key
        /\ Old(c) = Old(d)
        /\ \E r, q \in network :
               /\ r.call = c /\ q.call = d
               /\ r.req = q.req

----------------------------------------------------------------------------
(* C4 *)

----------------------------------------------------------------------------
(* C5 *)

----------------------------------------------------------------------------
(* C6 *)

\* The tokens held by the storages
StoredTokens ==
    {store[m][k] : m \in Managers, k \in Keys} \ {JUndef}

\* C6: isTokenExpired(token, bufferMs) is false for every token without
\* expiresAt, and for every token with an expiresAt, whatever its value, it is
\* true exactly when now >= expiresAt - bufferMs (bufferMs 30000 by default).
C6_ExpiryRule ==
    \A token \in StoredTokens, bufferMs \in {0, DefaultBufferMs} :
        /\ DefaultBufferMs = 30000
        /\ isTokenExpired(token, bufferMs, now) = ExpiryRule(token, bufferMs, now)

----------------------------------------------------------------------------
(* C7 *)

\* C7: a session stays refreshable: a successful refresh of a token that had a
\* refresh token stores a token that has one, also when the response omits
\* refresh_token; so "Token expired and no refresh token available" is only
\* ever reported for a token a caller stored, never for one a refresh stored.
C7_StaysRefreshable ==
    /\ \A c \in CallIds :
           (Refreshed(c) /\ calls[c].pc \in {"stored", "done"} /\ HasRefreshToken(Old(c)))
               => HasRefreshToken(calls[c].newToken)
    /\ \A d \in CallIds :
           (calls[d].pc = "done" /\ calls[d].result = ExpiredNoRefresh)
               => Old(d) \in TokenInputs

----------------------------------------------------------------------------
(* C8 *)

\* The endpoint's answer makes the refresh fail: the fetch throws, the body is
\* not JSON, the body carries an error field, or access_token is missing
FailingResponse(resp) ==
    \/ resp.kind \in {"fetch_throws", "json_throws"}
    \/ /\ resp.kind = "json"
       /\ \/ resp.body.f.error # JUndef
          \/ resp.body.f.access_token = JUndef

\* C8: when the refresh request of a call fails, getValidToken returns a
\* TokenError failure and the step leaves every stored token as it was: the
\* expired token is neither deleted nor replaced.
C8_FailedRefreshKeepsToken ==
    [][\A c \in CallIds :
          ( /\ calls[c].pc = "fetching"
            /\ calls'[c].pc # "fetching"
            /\ FailingResponse(calls'[c].resp) )
          => /\ calls'[c].pc = "done"
             /\ calls'[c].result.tag = "Err"
             /\ calls'[c].result.error.tag = "TokenError"
             /\ store' = store]_vars

\* A call whose refresh met a response without access_token has failed, and the
\* expired token it found is still the stored one
C8_Witness ==
    \E c \in CallIds :
        /\ calls[c].pc = "done"
        /\ calls[c].resp \in Responses
        /\ calls[c].resp.kind = "json"
        /\ calls[c].resp.body.f.access_token = JUndef
        /\ calls[c].resp.body.f.error = JUndef
        /\ calls[c].result.tag = "Err"
        /\ store[calls[c].mgr][calls[c].key] = Old(c)

----------------------------------------------------------------------------
(* C9 *)

\* Call c returns from getValidToken in this step, with a success
ReturnsOk(c) ==
    /\ calls[c].pc # "done"
    /\ calls'[c].pc = "done"
    /\ calls'[c].result.tag = "Ok"

\* C9 as claimed: every token getValidToken returns as a success is not
\* expired (isTokenExpired with the 30 s buffer) at the moment it is returned,
\* whether it came from the store or from a refresh response.
C9_ReturnedTokenValid ==
    [][\A c \in CallIds :
          ReturnsOk(c) =>
              ~isTokenExpired(calls'[c].result.value, DefaultBufferMs, now')]_vars

\* C9 as amended: a token returned unchanged from the store is not expired at
\* the moment it is returned; a token returned after a refresh is the token
\* parsed from the refresh response, returned without an expiry test.
C9_StoredValidRefreshedUnchecked ==
    [][\A c \in CallIds :
          ReturnsOk(c) =>
              IF calls'[c].refreshResult = Pending
              THEN /\ calls'[c].result.value = Old(c)
                   /\ ~isTokenExpired(calls'[c].result.value, DefaultBufferMs, now')
              ELSE /\ calls'[c].refreshResult.tag = "Ok"
                   /\ calls'[c].result.value = calls'[c].refreshResult.value]_vars

\* A refreshed token has been returned that was inside the expiry buffer from
\* the moment it was parsed; another call returned a live token from the store
C9_Witness ==
    \E c, d \in CallIds :
        /\ calls[c].pc = "done"
        /\ Refreshed(c)
        /\ calls[c].result = ok(Fresh(c))
        /\ isTokenExpired(Fresh(c), DefaultBufferMs, calls[c].checkedAt)
        /\ calls[d].pc = "done"
        /\ calls[d].refreshResult = Pending
        /\ calls[d].result.tag = "Ok"
        /\ Old(d).expiresAt # JUndef

----------------------------------------------------------------------------
(* C10 *)

\* The entries of the storages that differ between this state and the next
ChangedEntries ==
    {e \in Managers \X Keys : store'[e[1]][e[2]] # store[e[1]][e[2]]}

\* C10: managers and keys are isolated.  A step changes at most one storage
\* entry; a step of a call on manager M and key k changes no entry but M's k,
\* and reads no entry but M's k; every refresh request of a call on M goes to
\* M's tokenUrl with M's client id and secret, which no other manager has.
C10_Isolation ==
    [][/\ Cardinality(ChangedEntries) <= 1
       /\ \A e \in ChangedEntries :
              \/ writes' = writes + 1
              \/ \E c \in CallIds :
                     /\ calls[c].pc = "fetching" /\ calls'[c].pc = "stored"
                     /\ e = <<calls[c].mgr, calls[c].key>>
       /\ \A c \in CallIds :
              (calls[c].pc = "idle" /\ calls'[c].pc = "got") =>
                  LET mine == store[calls'[c].mgr][calls'[c].key] IN
                  calls'[c].tokenResult = IF mine = JUndef THEN NotFound ELSE ok(mine)
       /\ \A r \in network' :
              LET m == calls'[r.call].mgr IN
              /\ r.req.url = config(m).tokenUrl
              /\ r.req.body.client_id = config(m).clientId
              /\ r.req.body.client_secret = config(m).clientSecret
              /\ \A other \in Managers \ {m} :
                     /\ r.req.url # config(other).tokenUrl
                     /\ r.req.body.client_id # config(other).clientId
                     /\ r.req.body.client_secret # config(other).clientSecret]_vars

\* A call on manager m2 has refreshed its key through m2's endpoint while
\* another entry holds the token a caller stored there
C10_Witness ==
    \E c \in CallIds :
        /\ Refreshed(c)
        /\ calls[c].mgr = "m2"
        /\ store[calls[c].mgr][calls[c].key] = calls[c].newToken
        /\ \E r \in network : r.call = c /\ r.req.url = config("m2").tokenUrl
        /\ \E e \in Managers \X Keys :
               /\ e # <<calls[c].mgr, calls[c].key>>
               /\ store[e[1]][e[2]] \in TokenInputs

----------------------------------------------------------------------------
(* C11 *)

\* C11: getAuthHeader is getValidToken followed by formatting.  In the step in
\* which a call returns, getAuthHeader succeeds exactly when getValidToken does,
\* with tokenType + " " + accessToken of the token getValidToken returned (the
\* refreshed one after a refresh); it fails with getValidToken's error
\* otherwise; and the formatting changes neither the store nor the network.
C11_AuthHeaderIsFormattedValidToken ==
    [][\A c \in CallIds :
          (calls[c].header = Pending /\ calls'[c].header # Pending) =>
              LET result == calls'[c].result
                  header == calls'[c].header
              IN
              /\ result # Pending
              /\ header.tag = result.tag
              /\ result.tag = "Err" => header = result
              /\ result.tag = "Ok" =>
                     /\ header.value =
                            result.value.tokenType.s \o " " \o result.value.accessToken.s
                     /\ calls'[c].refreshResult # Pending =>
                            result.value = calls'[c].refreshResult.value
              /\ store' = store
              /\ network' = network]_vars

\* One call has returned the header of the token its refresh obtained, another
\* one has failed with getValidToken's error
C11_Witness ==
    \E c, d \in CallIds :
        /\ calls[c].pc = "done"
        /\ Refreshed(c)
        /\ Old(c).accessToken = JStr("a0")
        /\ calls[c].header = ok("Bearer a1")
        /\ calls[d].pc = "done"
        /\ calls[d].result.tag = "Err"
        /\ calls[d].header = calls[d].result

----------------------------------------------------------------------------
(* auth/middleware.ts: strings the middleware takes apart are sequences of *)
(* characters; strings it only passes on are kept whole                    *)

UpperCase ==
    <<"A", "B", "C", "D", "E", "F", "G", "H", "I", "J", "K", "L", "M",
      "N", "O", "P", "Q", "R", "S", "T", "U", "V", "W", "X", "Y", "Z">>
LowerCase ==
    <<"a", "b", "c", "d", "e", "f", "g", "h", "i", "j", "k", "l", "m",
      "n", "o", "p", "q", "r", "s", "t", "u", "v", "w", "x", "y", "z">>

\* String.prototype.toLowerCase
toLowerCase(s) ==
    [i \in 1..Len(s) |->
        IF \E j \in 1..Len(UpperCase) : UpperCase[j] = s[i]
        THEN LowerCase[CHOOSE j \in 1..Len(UpperCase) : UpperCase[j] = s[i]]
        ELSE s[i]]

\* String.prototype.split with a one-character separator
RECURSIVE split(_, _)
split(s, sep) ==
    IF \A i \in 1..Len(s) : s[i] # sep
    THEN <<s>>
    ELSE LET i == CHOOSE i \in 1..Len(s) : s[i] = sep /\ \A j \in 1..(i - 1) : s[j] # sep
         IN <<SubSeq(s, 1, i - 1)>> \o split(SubSeq(s, i + 1, Len(s)), sep)

\* Array.prototype.join
RECURSIVE join(_, _)
join(list, sep) ==
    IF list = <<>> THEN <<>>
    ELSE IF Len(list) = 1 THEN list[1]
    ELSE list[1] \o sep \o join(Tail(list), sep)

\* Array.prototype.includes
includes(list, x) == \E i \in 1..Len(list) : list[i] = x

\* getTokenScopes(token): token.scope.split(' ') without the empty pieces
getTokenScopes(token) ==
    IF Truthy(token.scope)
    THEN LET nonEmpty(piece) == Len(piece) > 0
         IN SelectSeq(split(token.scope.s, " "), nonEmpty)
    ELSE <<>>

\* Faulty variant: the scope is looked for anywhere in the scope string
hasScopeSubstring(token, scope) ==
    /\ Truthy(token.scope)
    /\ \E i \in 1..Len(token.scope.s) :
           i + Len(scope) - 1 <= Len(token.scope.s)
           /\ SubSeq(token.scope.s, i, i + Len(scope) - 1) = scope

hasScope(token, scope) == includes(getTokenScopes(token), scope)

bearer == <<"b", "e", "a", "r", "e", "r">>

\* Faulty variant: the scheme is not checked, any two-part header yields a token
extractBearerTokenAnyScheme(authHeader) ==
    IF ~Truthy(authHeader) THEN JUndef
    ELSE LET parts == split(authHeader.s, " ") IN
         IF Len(parts) # 2 THEN JUndef ELSE JStr(parts[2])

extractBearerToken(authHeader) ==
    IF ~Truthy(authHeader) THEN JUndef
    ELSE LET parts == split(authHeader.s, " ") IN
         IF Len(parts) # 2 THEN JUndef
         ELSE IF toLowerCase(parts[1]) # bearer THEN JUndef
         ELSE JStr(parts[2])

\* req.headers[name]: undefined when the request has no such header
headerOf(req, name) ==
    IF name \in DOMAIN req.headers THEN req.headers[name] ELSE JUndef

authorization == <<"a", "u", "t", "h", "o", "r", "i", "z", "a", "t", "i", "o", "n">>

\* Faulty variant: the query parameter wins over the Authorization header
extractTokenQueryFirst(req) ==
    IF TypeOf(req.query.access_token) = "string" THEN req.query.access_token
    ELSE extractBearerToken(headerOf(req, authorization))

extractToken(req) ==
    LET headerToken == extractBearerToken(headerOf(req, authorization))
        queryToken == req.query.access_token
    IN
    IF Truthy(headerToken) THEN headerToken
    ELSE IF TypeOf(queryToken) = "string" THEN queryToken
    ELSE JUndef

----------------------------------------------------------------------------
(* auth/middleware.ts: validators and middleware factories *)

\* A validator supplied by the application: its verdicts are its own
CustomValidator == [t |-> "function", kind |-> "custom"]

createSimpleValidator == [t |-> "function", kind |-> "simple"]

\* What the application's validator may resolve to for a token
CustomVerdicts ==
    {ok(TokenSet(JStr("sub"), JStr("Bearer"), JUndef, JUndef, sc)) :
        sc \in {JUndef, JStr(<<>>), JStr(<<"r">>), JStr(<<"r", " ", "w">>),
                JStr(<<"r", "w">>), JStr(<<"w", " ", " ", "r">>)}}
    \cup {err(oauthError("token revoked", JUndef))}

\* Faulty variant: the simple validator accepts every non-empty token
verdictsAnyLength(validator, token) ==
    CASE validator.kind = "simple" ->
            {IF ~Truthy(token)
             THEN err(oauthError("Invalid token format", JUndef))
             ELSE ok(TokenSet(token, JStr("Bearer"), JUndef, JUndef, JUndef))}
      [] validator.kind = "bearer" ->
            {IF token = validator.token
             THEN ok(TokenSet(token, JStr("Bearer"), JUndef, JUndef, JUndef))
             ELSE err(oauthError("Invalid bearer token", JUndef))}
      [] OTHER -> CustomVerdicts

\* await validator(token): the results the promise may resolve to
verdicts(validator, token) ==
    CASE validator.kind = "simple" ->
            {IF ~Truthy(token) \/ Len(token.s) < 10
             THEN err(oauthError("Invalid token format", JUndef))
             ELSE ok(TokenSet(token, JStr("Bearer"), JUndef, JUndef, JUndef))}
      [] validator.kind = "bearer" ->
            {IF token = validator.token
             THEN ok(TokenSet(token, JStr("Bearer"), JUndef, JUndef, JUndef))
             ELSE err(oauthError("Invalid bearer token", JUndef))}
      [] OTHER -> CustomVerdicts

createAuthMiddleware(validator) == [kind |-> "auth", validator |-> validator]

requireScopes(requiredScopes) == [kind |-> "scopes", requiredScopes |-> requiredScopes]

optionalAuth(validator) == [kind |-> "optional", validator |-> validator]

XApiKey == <<"X", "-", "A", "P", "I", "-", "K", "e", "y">>

createApiKeyMiddleware(validApiKeys, headerName) ==
    [kind |-> "apiKey", validApiKeys |-> validApiKeys,
     headerName |-> IF headerName = JUndef THEN JStr(XApiKey) ELSE headerName]

\* Faulty variant: the bearer configuration is served by the simple validator
createFlexibleAuthMiddlewareNoBearer(cfg, validator) ==
    CASE cfg.type = "oauth2" ->
            createAuthMiddleware(Nullish(validator, createSimpleValidator))
      [] cfg.type = "apiKey" ->
            createApiKeyMiddleware({cfg.key}, cfg.headerName)
      [] cfg.type = "bearer" ->
            createAuthMiddleware(createSimpleValidator)

createFlexibleAuthMiddleware(cfg, validator) ==
    CASE cfg.type = "oauth2" ->
            createAuthMiddleware(Nullish(validator, createSimpleValidator))
      [] cfg.type = "apiKey" ->
            createApiKeyMiddleware({cfg.key}, cfg.headerName)
      [] cfg.type = "bearer" ->
            createAuthMiddleware([t |-> "function", kind |-> "bearer", token |-> cfg.token])

----------------------------------------------------------------------------
(* auth/middleware.ts: one request going down a chain of handlers *)

\* A message: a literal, or a template literal with the strings put into it
Text(literal) == [text |-> literal, args |-> <<>>]
Template(text, args) == [text |-> text, args |-> args]

\* res.status(status).json(body) by the handler at the request's position; the
\* handler then returns
respond(req, status, error, description) ==
    [req EXCEPT !.pc = "end",
                !.responses = Append(@, [by |-> req.pos, status |-> status, error |-> error,
                                         error_description |-> description])]

RECURSIVE run(_)

\* next(): Express calls the following handler of the chain, the route handler
\* last, before next() returns
next(req) ==
    LET counted == [req EXCEPT !.nexts[req.pos] = @ + 1] IN
    IF req.pos = Len(req.chain)
    THEN [counted EXCEPT !.pc = "handled", !.handled = @ + 1]
    ELSE run([counted EXCEPT !.pc = "run", !.pos = @ + 1])

\* `await validator(token)`: the handler is suspended
await(req, token) == [req EXCEPT !.pc = "validating", !.awaited = token]

\* createAuthMiddleware up to the await
runAuth(req) ==
    LET token == extractToken(req) IN
    IF ~Truthy(token)
    THEN respond(req, 401, "unauthorized", Text("Missing authentication token"))
    ELSE await(req, token)

\* Faulty variant: the rejection is answered but the handler does not return
authValidatedNoReturn(req, validationResult) ==
    IF validationResult.tag = "Err"
    THEN next(respond(req, 401, "invalid_token", Text(validationResult.error.message)))
    ELSE next([req EXCEPT !.token = validationResult.value])

\* createAuthMiddleware after the await
authValidated(req, validationResult) ==
    IF validationResult.tag = "Err"
    THEN respond(req, 401, "invalid_token", Text(validationResult.error.message))
    ELSE next([req EXCEPT !.token = validationResult.value])

\* Faulty variant: one required scope is enough
runScopesAny(req) ==
    LET token == req.token
        mw == req.chain[req.pos]
        held(scope) == hasScope(token, scope)
    IN
    IF token = JUndef
    THEN respond(req, 401, "unauthorized", Text("Authentication required"))
    ELSE IF SelectSeq(mw.requiredScopes, held) = <<>> /\ mw.requiredScopes # <<>>
    THEN respond(req, 403, "insufficient_scope",
                 Template("Missing required scopes: ${}", <<join(mw.requiredScopes, <<",", " ">>)>>))
    ELSE next(req)

\* requireScopes
runScopes(req) ==
    LET token == req.token
        mw == req.chain[req.pos]
        missing(scope) == ~hasScope(token, scope)
        missingScopes == SelectSeq(mw.requiredScopes, missing)
    IN
    IF token = JUndef
    THEN respond(req, 401, "unauthorized", Text("Authentication required"))
    ELSE IF Len(missingScopes) > 0
    THEN respond(req, 403, "insufficient_scope",
                 Template("Missing required scopes: ${}", <<join(missingScopes, <<",", " ">>)>>))
    ELSE next(req)

\* optionalAuth up to the await
runOptional(req) ==
    LET token == extractToken(req) IN
    IF ~Truthy(token) THEN next(req) ELSE await(req, token)

\* Faulty variant: a rejected token ends the handler without next()
optionalValidatedBlocks(req, validationResult) ==
    IF validationResult.tag = "Ok"
    THEN next([req EXCEPT !.token = validationResult.value])
    ELSE [req EXCEPT !.pc = "end"]

\* optionalAuth after the await
optionalValidated(req, validationResult) ==
    IF validationResult.tag = "Ok"
    THEN next([req EXCEPT !.token = validationResult.value])
    ELSE next(req)

\* createApiKeyMiddleware
runApiKey(req) ==
    LET mw == req.chain[req.pos]
        apiKey == headerOf(req, toLowerCase(mw.headerName.s))
    IN
    IF ~Truthy(apiKey)
    THEN respond(req, 401, "unauthorized", Template("Missing ${} header", <<mw.headerName.s>>))
    ELSE IF apiKey \notin mw.validApiKeys
    THEN respond(req, 401, "invalid_api_key", Text("Invalid API key"))
    ELSE next(req)

\* The handler at the request's position runs up to its first await or its end
run(req) ==
    CASE req.chain[req.pos].kind = "auth" -> runAuth(req)
      [] req.chain[req.pos].kind = "optional" -> runOptional(req)
      [] req.chain[req.pos].kind = "scopes" -> runScopes(req)
      [] req.chain[req.pos].kind = "apiKey" -> runApiKey(req)

----------------------------------------------------------------------------
(* The requests that arrive and the chains they are routed through *)

abc == <<"a", "b", "c">>
nineChars == <<"1", "2", "3", "4", "5", "6", "7", "8", "9">>
tenChars == <<"0", "1", "2", "3", "4", "5", "6", "7", "8", "9">>
key1 == <<"k", "1">>
key2 == <<"k", "2">>
Bearer == <<"B", "e", "a", "r", "e", "r">>
Basic == <<"B", "a", "s", "i", "c">>
XKey == <<"X", "-", "K", "e", "y">>

\* Authorization header values: absent, empty, well-formed Bearer headers in
\* several spellings of the scheme, another scheme, and malformed ones
AuthorizationInputs ==
    { JUndef,
      JStr(<<>>),
      JStr(Bearer \o <<" ">> \o abc),
      JStr(bearer \o <<" ">> \o tenChars),
      JStr(<<"B", "E", "A", "R", "E", "R", " ">> \o nineChars),
      JStr(Basic \o <<" ">> \o <<"x", "y", "z">>),
      JStr(Bearer),
      JStr(Bearer \o <<" ">>),
      JStr(Bearer \o <<" ", " ">> \o abc),
      JStr(tenChars) }

\* ?access_token=...: absent, a string, empty, or repeated (an array)
QueryInputs ==
    {[access_token |-> v] :
        v \in {JUndef, JStr(abc), JStr(tenChars), JStr(<<>>), JObj(<<abc, tenChars>>)}}

\* Node delivers header names in lower case
ApiKeyHeaderInputs ==
    { <<>>,
      toLowerCase(XApiKey) :> JStr(key1),
      toLowerCase(XApiKey) :> JStr(key2),
      toLowerCase(XApiKey) :> JStr(<<>>),
      toLowerCase(XKey) :> JStr(key1) }

HeaderInputs ==
    {(IF a = JUndef THEN <<>> ELSE authorization :> a) @@ k :
        a \in AuthorizationInputs, k \in ApiKeyHeaderInputs}

\* requireScopes(...requiredScopes)
ScopeLists == {<<<<"r">>>>, <<<<"w">>>>, <<<<"r">>, <<"w">>>>}

\* AuthConfig variants (of an OAuthConfig only the tag decides)
AuthConfigs ==
    { [type |-> "oauth2"],
      [type |-> "apiKey", key |-> JStr(key1), headerName |-> JUndef],
      [type |-> "apiKey", key |-> JStr(key1), headerName |-> JStr(XKey)],
      [type |-> "apiKey", key |-> JStr(<<>>), headerName |-> JUndef],
      [type |-> "bearer", token |-> JStr(abc)],
      [type |-> "bearer", token |-> JStr(<<>>)] }

Chains ==
    {<<createAuthMiddleware(CustomValidator)>>, <<optionalAuth(CustomValidator)>>}
    \cup {<<requireScopes(S)>> : S \in ScopeLists}
    \cup {<<createAuthMiddleware(CustomValidator), requireScopes(S)>> : S \in ScopeLists}
    \cup {<<optionalAuth(CustomValidator), requireScopes(S)>> : S \in ScopeLists}
    \cup {<<createFlexibleAuthMiddleware(cfg, validator)>> :
            cfg \in AuthConfigs, validator \in {JUndef, CustomValidator}}

\* Express hands the request to the first handler of the chain
NewRequest(headers, query, chain) ==
    [pc |-> "run", headers |-> headers, query |-> query, chain |-> chain,
     pos |-> 1, awaited |-> JUndef, token |-> JUndef, responses |-> <<>>,
     nexts |-> [i \in 1..Len(chain) |-> 0], validations |-> <<>>, handled |-> 0]

\* A request arrives: the chain runs until a handler awaits, answers, or the
\* route handler is reached
Arrive(headers, query, chain) ==
    /\ request.pc = "idle"
    /\ request' = run(NewRequest(headers, query, chain))
    /\ UNCHANGED <<now, store, calls, network, writes, parsing, flow, written, generated>>

\* The validator's promise resolves: the suspended handler goes on, and with
\* it the rest of the chain
Validated ==
    /\ request.pc = "validating"
    /\ \E validationResult \in verdicts(request.chain[request.pos].validator, request.awaited) :
           LET req == [request EXCEPT !.validations =
                          Append(@, [token |-> request.awaited, result |-> validationResult])]
           IN request' =
                 IF req.chain[req.pos].kind = "auth"
                 THEN authValidated(req, validationResult)
                 ELSE optionalValidated(req, validationResult)
    /\ UNCHANGED <<now, store, calls, network, writes, parsing, flow, written, generated>>

NextMiddleware ==
    \/ \E headers \in HeaderInputs, query \in QueryInputs, chain \in Chains :
           Arrive(headers, query, chain)
    \/ Validated

\* The validator's promise settles and the event loop runs the continuation
SpecMiddleware ==
    Init /\ [][NextMiddleware]_vars /\ WF_vars(Validated)

----------------------------------------------------------------------------
(* Vocabulary of the middleware properties *)

\* The handler at position i of the chain is of the given kind
HandlerIs(i, kind) ==
    /\ request.pc # "idle"
    /\ i <= Len(request.chain)
    /\ request.chain[i].kind = kind

\* The handler at position i has returned (it answered or called next)
Returned(i) ==
    request.pos > i \/ (request.pos = i /\ request.pc \in {"end", "handled"})

\* The responses the handler at position i has sent
SentBy(i) ==
    LET mine(response) == response.by = i IN SelectSeq(request.responses, mine)

Answer(i, status, error, description) ==
    [by |-> i, status |-> status, error |-> error, error_description |-> description]

\* JavaScript's !token for the string | undefined that extractToken returns
NoToken(token) == token = JUndef \/ token = JStr(<<>>)

----------------------------------------------------------------------------
(* C12 *)

\* (a) no token extracted: 401 "unauthorized", no validation, no next
C12_Unauthorized ==
    /\ NoToken(extractToken(request))
    /\ SentBy(1) = <<Answer(1, 401, "unauthorized", Text("Missing authentication token"))>>
    /\ request.validations = <<>>
    /\ request.nexts[1] = 0
    /\ request.token = JUndef

\* (b) the validator rejects the token: 401 "invalid_token", nothing attached, no next
C12_InvalidToken ==
    /\ Len(request.validations) = 1
    /\ request.validations[1].token = extractToken(request)
    /\ request.validations[1].result.tag = "Err"
    /\ SentBy(1) = <<Answer(1, 401, "invalid_token",
                            Text(request.validations[1].result.error.message))>>
    /\ request.nexts[1] = 0
    /\ request.token = JUndef

\* (c) the validator accepts: its TokenSet is attached, next is called once, no response
C12_Accepted ==
    /\ Len(request.validations) = 1
    /\ request.validations[1].token = extractToken(request)
    /\ request.validations[1].result.tag = "Ok"
    /\ request.token = request.validations[1].result.value
    /\ request.nexts[1] = 1
    /\ SentBy(1) = <<>>

\* C12: createAuthMiddleware(validator) ends, for every request, in exactly one
\* of (a) 401 "unauthorized" without calling the validator or next, (b) 401
\* "invalid_token" without attaching a token or calling next, (c) the validated
\* TokenSet attached and next called exactly once without a response; it never
\* both responds and calls next, and does neither before it ends.
C12_AuthMiddlewareOutcomes ==
    HandlerIs(1, "auth") =>
        /\ ~(SentBy(1) # <<>> /\ request.nexts[1] > 0)
        /\ ~Returned(1) => SentBy(1) = <<>> /\ request.nexts[1] = 0
        /\ Returned(1) =>
               /\ C12_Unauthorized \/ C12_InvalidToken \/ C12_Accepted
               /\ ~(C12_Unauthorized /\ C12_InvalidToken)
               /\ ~(C12_Unauthorized /\ C12_Accepted)
               /\ ~(C12_InvalidToken /\ C12_Accepted)

\* The application's validator has rejected the token of a request, which got
\* the 401 "invalid_token" answer
C12_Witness ==
    /\ HandlerIs(1, "auth")
    /\ request.chain[1].validator = CustomValidator
    /\ Returned(1)
    /\ C12_InvalidToken
    /\ request.pc = "end"

----------------------------------------------------------------------------
(* C13 *)

\* The elements of a space-separated list: its maximal runs without a space
ListElements(scope) ==
    IF scope = JUndef THEN {}
    ELSE LET s == scope.s
             runs == {p \in (1..Len(s)) \X (1..Len(s)) :
                         /\ p[1] <= p[2]
                         /\ \A i \in p[1]..p[2] : s[i] # " "
                         /\ p[1] = 1 \/ s[p[1] - 1] = " "
                         /\ p[2] = Len(s) \/ s[p[2] + 1] = " "}
         IN {SubSeq(s, p[1], p[2]) : p \in runs}

\* The required scopes, in their order, that the attached token does not have
MissingScopes(requiredScopes) ==
    LET absent(scope) == scope \notin ListElements(request.token.scope)
    IN SelectSeq(requiredScopes, absent)

\* C13: requireScopes(s1..sn) answers 401 when no token is attached; otherwise
\* 403 "insufficient_scope" exactly when some required scope is not an element
\* of the token's space-separated scope list, naming in the description every
\* missing scope and no other; otherwise it calls next.  Scopes are matched as
\* whole list elements.
C13_RequireScopes ==
    \A i \in 1..2 :
        (HandlerIs(i, "scopes") /\ Returned(i)) =>
            LET missing == MissingScopes(request.chain[i].requiredScopes) IN
            IF request.token = JUndef
            THEN /\ SentBy(i) = <<Answer(i, 401, "unauthorized", Text("Authentication required"))>>
                 /\ request.nexts[i] = 0
            ELSE IF missing # <<>>
            THEN /\ SentBy(i) =
                        <<Answer(i, 403, "insufficient_scope",
                                 Template("Missing required scopes: ${}",
                                          <<join(missing, <<",", " ">>)>>))>>
                 /\ request.nexts[i] = 0
            ELSE /\ SentBy(i) = <<>>
                 /\ request.nexts[i] = 1

\* requireScopes("r", "w") has met a token whose scope is "r" and answered 403
\* naming "w"
C13_Witness ==
    /\ HandlerIs(2, "scopes")
    /\ Returned(2)
    /\ request.chain[2].requiredScopes = <<<<"r">>, <<"w">>>>
    /\ request.token # JUndef
    /\ request.token.scope = JStr(<<"r">>)
    /\ SentBy(2) = <<Answer(2, 403, "insufficient_scope",
                            Template("Missing required scopes: ${}", <<<<"w">>>>))>>

----------------------------------------------------------------------------
(* C14 *)

\* The request goes through createAuthMiddleware(validator), requireScopes(S), handler
GuardedChain ==
    /\ request.pc # "idle"
    /\ Len(request.chain) = 2
    /\ request.chain[1].kind = "auth"
    /\ request.chain[2].kind = "scopes"

\* C14: in the chain createAuthMiddleware(validator) -> requireScopes(S) ->
\* handler, the handler is reached only after the validator has accepted the
\* credential the request presented and the accepted TokenSet's scope list
\* holds every scope of S; a request rejected at either step never reaches it.
C14_HandlerOnlyAfterAuthAndScopes ==
    GuardedChain =>
        /\ request.handled <= 1
        /\ request.responses # <<>> => request.handled = 0
        /\ request.handled > 0 =>
               /\ Len(request.validations) = 1
               /\ request.validations[1].token = extractToken(request)
               /\ ~NoToken(request.validations[1].token)
               /\ request.validations[1].result.tag = "Ok"
               /\ request.token = request.validations[1].result.value
               /\ \A i \in 1..Len(request.chain[2].requiredScopes) :
                      request.chain[2].requiredScopes[i] \in
                          ListElements(request.validations[1].result.value.scope)

\* The handler behind requireScopes("r", "w") has been reached with a token
\* whose scope list is "w  r"
C14_Witness ==
    /\ GuardedChain
    /\ request.chain[2].requiredScopes = <<<<"r">>, <<"w">>>>
    /\ request.handled = 1
    /\ request.token.scope = JStr(<<"w", " ", " ", "r">>)

----------------------------------------------------------------------------
(* C15 *)

\* optionalAuth has called next exactly once and has sent nothing
C15_Proceeded ==
    /\ HandlerIs(1, "optional")
    /\ request.nexts[1] = 1
    /\ SentBy(1) = <<>>

\* A token was extracted from the request and the validator accepted it
C15_ExtractedAndAccepted ==
    /\ ~NoToken(extractToken(request))
    /\ Len(request.validations) = 1
    /\ request.validations[1].token = extractToken(request)
    /\ request.validations[1].result.tag = "Ok"

\* C15: optionalAuth(validator) never blocks: for every request and every
\* verdict of the validator it eventually calls next, exactly once, and never
\* sends a response; a token is attached exactly when one was extracted and
\* the validator accepted it.
C15_OptionalAuthNeverBlocks ==
    /\ [](HandlerIs(1, "optional") =>
             /\ SentBy(1) = <<>>
             /\ request.nexts[1] <= 1
             /\ Returned(1) =>
                    /\ request.nexts[1] = 1
                    /\ request.token # JUndef <=> C15_ExtractedAndAccepted
                    /\ request.token # JUndef =>
                           request.token = request.validations[1].result.value)
    /\ HandlerIs(1, "optional") ~> C15_Proceeded

\* A request whose token the validator rejected has gone on to the route
\* handler, without a token
C15_Witness ==
    /\ C15_Proceeded
    /\ Len(request.chain) = 1
    /\ Len(request.validations) = 1
    /\ request.validations[1].result.tag = "Err"
    /\ request.token = JUndef
    /\ request.handled = 1

----------------------------------------------------------------------------
(* C16 *)

\* The first handler let the request proceed / answered 401
C16_Proceeds == request.nexts[1] = 1 /\ SentBy(1) = <<>>
C16_Answers401 ==
    /\ request.nexts[1] = 0
    /\ Len(SentBy(1)) = 1
    /\ SentBy(1)[1].status = 401

\* The request carries the header the apiKey configuration names (X-API-Key
\* by default) with a non-empty value, which is the configured key
C16_HasConfiguredKey(cfg) ==
    LET name == IF cfg.headerName = JUndef THEN XApiKey ELSE cfg.headerName.s IN
    \E h \in DOMAIN request.headers :
        /\ toLowerCase(h) = toLowerCase(name)
        /\ request.headers[h] # JStr(<<>>)
        /\ request.headers[h] = cfg.key

\* What the claim lets through, per configuration
C16_Allowed(cfg, validator) ==
    CASE cfg.type = "oauth2" /\ validator = JUndef ->
            /\ ~NoToken(extractToken(request))
            /\ Len(extractToken(request).s) >= 10
      [] cfg.type = "oauth2" /\ validator # JUndef ->
            /\ request.chain[1] = createAuthMiddleware(validator)
            /\ Len(request.validations) = 1
            /\ request.validations[1].token = extractToken(request)
            /\ request.validations[1].result.tag = "Ok"
      [] cfg.type = "apiKey" -> C16_HasConfiguredKey(cfg)
      [] cfg.type = "bearer" ->
            /\ ~NoToken(extractToken(request))
            /\ extractToken(request) = cfg.token

\* C16: createFlexibleAuthMiddleware(config, validator?) dispatches on
\* config.type.  oauth2: createAuthMiddleware with the supplied validator, or
\* with the simple validator (accepts exactly the tokens of length >= 10);
\* apiKey: proceeds exactly when the header config.headerName (default
\* X-API-Key) is present and equals config.key; bearer: proceeds exactly when
\* the extracted token equals config.token; 401 otherwise.
C16_FlexibleDispatch ==
    \A cfg \in AuthConfigs, validator \in {JUndef, CustomValidator} :
        ( /\ request.pc # "idle"
          /\ request.chain = <<createFlexibleAuthMiddleware(cfg, validator)>>
          /\ Returned(1) )
        => /\ C16_Proceeds \/ C16_Answers401
           /\ C16_Proceeds <=> C16_Allowed(cfg, validator)

\* A request with the key in the configured X-Key header has passed the apiKey
\* middleware
C16_Witness ==
    /\ request.pc = "handled"
    /\ request.chain =
           <<createFlexibleAuthMiddleware(
                 [type |-> "apiKey", key |-> JStr(key1), headerName |-> JStr(XKey)], JUndef)>>
    /\ C16_Proceeds
    /\ headerOf(request, <<"x", "-", "k", "e", "y">>) = JStr(key1)

----------------------------------------------------------------------------
(* C17 *)

\* "Bearer <token>": the scheme in any letter case, one space, a non-empty
\* token without spaces
C17_WellFormed(header) ==
    /\ header # JUndef
    /\ Len(header.s) >= 8
    /\ toLowerCase(SubSeq(header.s, 1, 6)) = bearer
    /\ header.s[7] = " "
    /\ \A i \in 8..Len(header.s) : header.s[i] # " "

\* The request is handled by createAuthMiddleware, which has returned
C17_AuthReturned == HandlerIs(1, "auth") /\ Returned(1)

C17_Rejected401 ==
    /\ NoToken(extractToken(request))
    /\ SentBy(1) = <<Answer(1, 401, "unauthorized", Text("Missing authentication token"))>>
    /\ request.validations = <<>>
    /\ request.nexts[1] = 0

\* The request has a non-empty access_token query parameter
C17_HasQueryToken ==
    /\ request.query.access_token.t = "string"
    /\ request.query.access_token # JStr(<<>>)

\* C17 as claimed: a request whose Authorization header is not a well-formed
\* "Bearer <token>" header fails token extraction and is answered 401 by
\* createAuthMiddleware.
C17_MalformedHeaderRejected ==
    ( /\ C17_AuthReturned
      /\ headerOf(request, authorization) # JUndef
      /\ ~C17_WellFormed(headerOf(request, authorization)) )
        => C17_Rejected401

\* C17 as amended: such a request fails extraction and is answered 401 when it
\* has no non-empty access_token query parameter; the header comes first and
\* the query parameter is the fallback, so with a well-formed header the token
\* is the header's, and otherwise a query token is what the validator gets.
C17_HeaderFirstQueryFallback ==
    C17_AuthReturned =>
        LET header == headerOf(request, authorization) IN
        IF C17_WellFormed(header)
        THEN /\ extractToken(request) = JStr(SubSeq(header.s, 8, Len(header.s)))
             /\ Len(request.validations) = 1
             /\ request.validations[1].token = extractToken(request)
        ELSE IF C17_HasQueryToken
        THEN /\ extractToken(request) = request.query.access_token
             /\ Len(request.validations) = 1
             /\ request.validations[1].token = request.query.access_token
        ELSE C17_Rejected401

\* A request with the header "Basic xyz" and no query token got the 401
C17_Witness ==
    /\ C17_AuthReturned
    /\ headerOf(request, authorization) = JStr(Basic \o <<" ", "x", "y", "z">>)
    /\ request.query.access_token = JUndef
    /\ C17_Rejected401
    /\ request.pc = "end"

----------------------------------------------------------------------------
(* auth/oauth.ts: parseTokenResponse applied to the payloads a token endpoint *)
(* may send                                                                   *)

\* Values that are not JSON objects, and objects with each field absent,
\* well-formed, or degenerate (null, empty, zero, negative, of another type)
PayloadInputs ==
    {JUndef, JNull, JStr("access_token=a1"), JNum(200)}
    \cup {Payload(e, ed, a, tt, ei, r, JUndef) :
            e \in {JUndef, JNull, JStr(""), JStr("invalid_grant")},
            ed \in {JUndef, JNull, JStr("x")},
            a \in {JUndef, JStr(""), JNum(7), JStr("a1")},
            tt \in {JUndef, JStr(""), JStr("mac")},
            ei \in {JUndef, JNum(0), JNum(0 - 5), JNum(3600)},
            r \in {JUndef, JStr("r1")}}

\* A payload arrives from the token endpoint
Receive(response) ==
    /\ parsing.pc = "idle"
    /\ parsing' = [pc |-> "received", response |-> response]
    /\ UNCHANGED <<now, store, calls, network, writes, request, flow, written, generated>>

\* parseTokenResponse(response)
Parse ==
    /\ parsing.pc = "received"
    /\ parsing' = [pc |-> "parsed", response |-> parsing.response, at |-> now,
                   result |-> parseTokenResponse(parsing.response, now)]
    /\ UNCHANGED <<now, store, calls, network, writes, request, flow, written, generated>>

NextParse ==
    \/ \E response \in PayloadInputs : Receive(response)
    \/ Parse
    \/ Tick

SpecParse == Init /\ [][NextParse]_vars

----------------------------------------------------------------------------
(* C18 *)

Parsed == parsing.pc = "parsed"

\* The payload is a JSON object (typeof 'object' and not null)
IsObject(response) == response.t = "object"

\* JavaScript's falsy values among the payload fields
Falsy == {JUndef, JNull, JStr(""), JNum(0)}

\* The failure parseTokenResponse reports for an error response
C18_ErrorFailure(data) ==
    err([tag |-> "OAuthError",
         message |-> IF data.error_description \in {JUndef, JNull}
                     THEN data.error.s
                     ELSE data.error_description.s,
         code |-> data.error])

C18_Missing == err([tag |-> "OAuthError", message |-> "Missing access_token in response",
                    code |-> JUndef])

\* C18 as claimed: every payload is classified in this order: not an object:
\* OAuthError; else carrying an error field: OAuthError with that code and
\* error_description (or the code) as message, even with an access_token; else
\* access_token missing, not a string or empty: "Missing access_token"; only
\* otherwise success, with a non-empty string accessToken.
C18_ClassifiesInOrder ==
    Parsed =>
        LET response == parsing.response
            result == parsing.result
        IN
        IF ~IsObject(response)
        THEN result.tag = "Err" /\ result.error.tag = "OAuthError"
        ELSE IF response.f.error # JUndef
        THEN /\ result.tag = "Err"
             /\ result.error.tag = "OAuthError"
             /\ result.error.code = response.f.error
        ELSE IF response.f.access_token \in Falsy \/ response.f.access_token.t # "string"
        THEN result = C18_Missing
        ELSE /\ result.tag = "Ok"
             /\ result.value.accessToken = response.f.access_token

\* C18 as amended: the same order, with "carrying an error field" meaning an
\* error field with a truthy value; a null or empty error field is ignored.
C18_ClassifiesTruthyError ==
    Parsed =>
        LET response == parsing.response
            result == parsing.result
        IN
        IF ~IsObject(response)
        THEN /\ result.tag = "Err"
             /\ result.error.tag = "OAuthError"
             /\ result.error.message = "Invalid token response format"
        ELSE IF response.f.error \notin Falsy
        THEN result = C18_ErrorFailure(response.f)
        ELSE IF response.f.access_token \in Falsy \/ response.f.access_token.t # "string"
        THEN result = C18_Missing
        ELSE /\ result.tag = "Ok"
             /\ result.value.accessToken = response.f.access_token
             /\ result.value.accessToken.t = "string"
             /\ result.value.accessToken # JStr("")

\* An error response that also carries an access_token has been parsed into
\* the failure with its code and description
C18_Witness ==
    /\ Parsed
    /\ IsObject(parsing.response)
    /\ parsing.response.f.error = JStr("invalid_grant")
    /\ parsing.response.f.error_description = JStr("x")
    /\ parsing.response.f.access_token = JStr("a1")
    /\ parsing.result = err(oauthError("x", JStr("invalid_grant")))

----------------------------------------------------------------------------
(* C19 *)

\* C19: on success parseTokenResponse sets expiresAt = now + expires_in * 1000
\* whenever the response carries expires_in, for every numeric value; leaves
\* expiresAt absent exactly when the response carries no expires_in; and sets
\* tokenType to the response's token_type, or to "Bearer" when that is absent.
C19_ExpiresAtAndTokenType ==
    (Parsed /\ parsing.result.tag = "Ok") =>
        LET data == parsing.response.f
            token == parsing.result.value
        IN
        /\ data.expires_in # JUndef =>
               token.expiresAt = JNum(parsing.at + data.expires_in.n * 1000)
        /\ token.expiresAt = JUndef <=> data.expires_in = JUndef
        /\ token.tokenType = IF data.token_type = JUndef
                             THEN JStr("Bearer")
                             ELSE data.token_type

----------------------------------------------------------------------------
(* auth/oauth.ts, auth/pkce.ts: the authorization-code flow *)

MaxFlows == 2       \* createAuthorizationState calls
MaxCallbacks == 2   \* callbacks handled
MaxRequests == 1    \* buildTokenRequestBody calls made outside a callback
MaxUrls == 1        \* initializeAuthFlow / buildAuthorizationUrl calls

JBool(x) == [t |-> "boolean", b |-> x]

\* Outcomes of generateState() and generateCodeVerifier(): random values
StateValues == {"st1", "st2"}
Verifiers == {"v1", "v2"}

\* The state parameter a callback carries: one that was issued, or a forged one
ReceivedValues == StateValues \cup {"forged"}
Codes == {"code1", "code2"}
RedirectUris == {"https://app/callback"}

\* A URL string and what new URL(text) makes of it: a TypeError when parses
\* is FALSE, otherwise the URL without its query and the query's parameters
Url(text, parses, base, searchParams) ==
    [text |-> text, parses |-> parses, base |-> base, searchParams |-> searchParams]

Param(name, value) == [name |-> name, value |-> value]

EmptyUrl == Url("", FALSE, "", <<>>)
NotAUrl == Url("not-a-url", FALSE, "", <<>>)
AuthorizeUrl == Url("https://auth/authorize", TRUE, "https://auth/authorize", <<>>)
AuthorizeUrlWithPrompt ==
    Url("https://auth/authorize?prompt=consent", TRUE, "https://auth/authorize",
        <<Param("prompt", "consent")>>)
AuthorizeUrlWithScope ==
    Url("https://auth/authorize?scope=openid", TRUE, "https://auth/authorize",
        <<Param("scope", "openid")>>)
TokenUrl == Url("https://auth/token", TRUE, "https://auth/token", <<>>)

\* A complete OAuthConfig with PKCE left unset
ValidConfig ==
    [clientId |-> "c1", clientSecret |-> JStr("s1"),
     authorizationUrl |-> AuthorizeUrl, tokenUrl |-> TokenUrl,
     scopes |-> <<"read", "write">>, pkce |-> JUndef]

\* OAuthConfigs read by buildTokenRequestBody: with and without a client
\* secret, PKCE unset or off, client id present or empty
TokenConfigs ==
    { ValidConfig,
      [ValidConfig EXCEPT !.clientSecret = JStr("")],
      [ValidConfig EXCEPT !.pkce = JBool(FALSE)],
      [ValidConfig EXCEPT !.clientId = ""] }

\* OAuthConfigs: the complete one and its variations in each field
FlowConfigs ==
    TokenConfigs \cup
    { [ValidConfig EXCEPT !.pkce = JBool(TRUE)],
      [ValidConfig EXCEPT !.scopes = <<>>],
      [ValidConfig EXCEPT !.scopes = <<"read">>],
      [ValidConfig EXCEPT !.scopes = <<>>, !.pkce = JBool(FALSE)],
      [ValidConfig EXCEPT !.authorizationUrl = EmptyUrl],
      [ValidConfig EXCEPT !.authorizationUrl = NotAUrl],
      [ValidConfig EXCEPT !.authorizationUrl = AuthorizeUrlWithPrompt],
      [ValidConfig EXCEPT !.authorizationUrl = AuthorizeUrlWithScope],
      [ValidConfig EXCEPT !.authorizationUrl = AuthorizeUrlWithScope, !.scopes = <<>>],
      [ValidConfig EXCEPT !.tokenUrl = EmptyUrl],
      [ValidConfig EXCEPT !.tokenUrl = NotAUrl],
      [ValidConfig EXCEPT !.clientId = "", !.tokenUrl = NotAUrl] }

DefaultMaxAgeMs == 10 * 60 * 1000

\* The maximum age a caller passes to isStateExpired: the default, or a
\* shorter one
MaxAges == {DefaultMaxAgeMs, 5 * 1000}

\* createHash('sha256').update(verifier).digest() and its base64url encoding:
\* one-to-one on the verifiers drawn here
sha256(text) == <<"sha256", text>>
base64UrlEncode(buffer) == <<"base64url", buffer>>

computeCodeChallenge(verifier) == base64UrlEncode(sha256(verifier))

\* Faulty variant: the challenge is the verifier itself (the plain method)
generatePkceParamsPlain(verifier) ==
    [codeVerifier |-> verifier,
     codeChallenge |-> <<"plain", verifier>>,
     codeChallengeMethod |-> "S256"]

generatePkceParams(verifier) ==
    [codeVerifier |-> verifier,
     codeChallenge |-> computeCodeChallenge(verifier),
     codeChallengeMethod |-> "S256"]

\* Object.entries(pkceToQueryParams(params))
pkceToQueryParams(params) ==
    <<Param("code_challenge", params.codeChallenge),
      Param("code_challenge_method", params.codeChallengeMethod)>>

pkceToTokenParams(verifier) == [code_verifier |-> verifier]

createAuthorizationState(redirectUri, state, verifier, t) ==
    [state |-> state,
     pkce |-> generatePkceParams(verifier),
     redirectUri |-> redirectUri,
     createdAt |-> t]

validateState(expected, received) == expected = received

isStateExpired(state, maxAgeMs, t) == t - state.createdAt > maxAgeMs

buildTokenRequestBody(cfg, code, state) ==
    LET body == [grant_type |-> "authorization_code",
                 code |-> code,
                 redirect_uri |-> state.redirectUri,
                 client_id |-> cfg.clientId]
        secret == IF Truthy(cfg.clientSecret)
                  THEN [client_secret |-> cfg.clientSecret.s]
                  ELSE <<>>
        pkce == IF cfg.pkce # JBool(FALSE)
                THEN pkceToTokenParams(state.pkce.codeVerifier)
                ELSE <<>>
    IN body @@ secret @@ pkce

\* URLSearchParams.set: the first parameter of that name takes the value and
\* the other ones of that name are dropped; appended when there is none
searchParamsSet(searchParams, name, value) ==
    IF \E i \in 1..Len(searchParams) : searchParams[i].name = name
    THEN LET first == CHOOSE i \in 1..Len(searchParams) :
                          /\ searchParams[i].name = name
                          /\ \A j \in 1..(i - 1) : searchParams[j].name # name
             other(param) == param.name # name
         IN SelectSeq(SubSeq(searchParams, 1, first - 1), other)
            \o <<Param(name, value)>>
            \o SelectSeq(SubSeq(searchParams, first + 1, Len(searchParams)), other)
    ELSE Append(searchParams, Param(name, value))

RECURSIVE searchParamsSetAll(_, _)
searchParamsSetAll(searchParams, entries) ==
    IF entries = <<>>
    THEN searchParams
    ELSE searchParamsSetAll(
             searchParamsSet(searchParams, entries[1].name, entries[1].value),
             Tail(entries))

\* Faulty variant: the PKCE parameters are added only when config.pkce is set
buildAuthorizationUrlPkceOptIn(cfg, state) ==
    IF ~cfg.authorizationUrl.parses THEN Thrown(JError("Invalid URL")) ELSE
    LET required == <<Param("response_type", "code"),
                      Param("client_id", cfg.clientId),
                      Param("redirect_uri", state.redirectUri),
                      Param("state", state.state)>>
        scope == IF Len(cfg.scopes) > 0
                 THEN <<Param("scope", join(cfg.scopes, " "))>>
                 ELSE <<>>
        pkce == IF cfg.pkce = JBool(TRUE)
                THEN pkceToQueryParams(state.pkce)
                ELSE <<>>
    IN [tag |-> "Url",
        base |-> cfg.authorizationUrl.base,
        searchParams |-> searchParamsSetAll(cfg.authorizationUrl.searchParams,
                                             required \o scope \o pkce)]

\* The URL value buildAuthorizationUrl serialises with url.toString(), or the
\* TypeError of new URL(config.authorizationUrl)
buildAuthorizationUrl(cfg, state) ==
    IF ~cfg.authorizationUrl.parses THEN Thrown(JError("Invalid URL")) ELSE
    LET required == <<Param("response_type", "code"),
                      Param("client_id", cfg.clientId),
                      Param("redirect_uri", state.redirectUri),
                      Param("state", state.state)>>
        scope == IF Len(cfg.scopes) > 0
                 THEN <<Param("scope", join(cfg.scopes, " "))>>
                 ELSE <<>>
        pkce == IF cfg.pkce # JBool(FALSE)
                THEN pkceToQueryParams(state.pkce)
                ELSE <<>>
    IN [tag |-> "Url",
        base |-> cfg.authorizationUrl.base,
        searchParams |-> searchParamsSetAll(cfg.authorizationUrl.searchParams,
                                             required \o scope \o pkce)]

\* Faulty variant: only the authorization URL is parsed
validateOAuthConfigOneUrl(cfg) ==
    IF cfg.clientId = ""
    THEN err(oauthError("Missing clientId in OAuth configuration", JUndef))
    ELSE IF cfg.authorizationUrl.text = ""
    THEN err(oauthError("Missing authorizationUrl in OAuth configuration", JUndef))
    ELSE IF cfg.tokenUrl.text = ""
    THEN err(oauthError("Missing tokenUrl in OAuth configuration", JUndef))
    ELSE IF ~cfg.authorizationUrl.parses
    THEN err(oauthError("Invalid URL in OAuth configuration", JUndef))
    ELSE ok(cfg)

validateOAuthConfig(cfg) ==
    IF cfg.clientId = ""
    THEN err(oauthError("Missing clientId in OAuth configuration", JUndef))
    ELSE IF cfg.authorizationUrl.text = ""
    THEN err(oauthError("Missing authorizationUrl in OAuth configuration", JUndef))
    ELSE IF cfg.tokenUrl.text = ""
    THEN err(oauthError("Missing tokenUrl in OAuth configuration", JUndef))
    ELSE IF ~cfg.authorizationUrl.parses \/ ~cfg.tokenUrl.parses
    THEN err(oauthError("Invalid URL in OAuth configuration", JUndef))
    ELSE ok(cfg)

\* initializeAuthFlow(config, redirectUri), with the values generateState()
\* and generateCodeVerifier() draw and Date.now()
initializeAuthFlow(cfg, redirectUri, state, verifier, t) ==
    LET validationResult == validateOAuthConfig(cfg) IN
    IF validationResult.tag = "Err"
    THEN validationResult
    ELSE LET created == createAuthorizationState(redirectUri, state, verifier, t)
         IN ok([url |-> buildAuthorizationUrl(cfg, created), state |-> created])

\* A caller starts a flow: createAuthorizationState(redirectUri). The state
\* value it draws has not been issued before.
StartFlow(redirectUri, state, verifier) ==
    /\ Cardinality(flow.states) < MaxFlows
    /\ \A issued \in flow.states : issued.state # state
    /\ flow' = [flow EXCEPT !.states =
                   @ \cup {createAuthorizationState(redirectUri, state, verifier, now)}]
    /\ UNCHANGED <<now, store, calls, network, writes, request, parsing, written, generated>>

\* A caller handles a callback against an AuthorizationState it holds: the
\* state parameter is validated, the age is checked, and when both pass the
\* token request body is built.
Callback(state, received, code, cfg, maxAgeMs) ==
    /\ Len(flow.callbacks) < MaxCallbacks
    /\ state \in flow.states
    /\ LET accepted == /\ validateState(state.state, received)
                       /\ ~isStateExpired(state, maxAgeMs, now)
       IN flow' = [flow EXCEPT !.callbacks =
                      Append(@, [state |-> state,
                                 received |-> received,
                                 at |-> now,
                                 maxAgeMs |-> maxAgeMs,
                                 accepted |-> accepted,
                                 body |-> IF accepted
                                          THEN buildTokenRequestBody(cfg, code, state)
                                          ELSE <<>>])]
    /\ UNCHANGED <<now, store, calls, network, writes, request, parsing, written, generated>>

\* A caller calls buildTokenRequestBody(config, code, state) on an
\* AuthorizationState it holds
BuildTokenRequest(state, code, cfg) ==
    /\ Cardinality(flow.requests) < MaxRequests
    /\ state \in flow.states
    /\ flow' = [flow EXCEPT !.requests =
                   @ \cup {[state |-> state, cfg |-> cfg, code |-> code, at |-> now,
                            body |-> buildTokenRequestBody(cfg, code, state)]}]
    /\ UNCHANGED <<now, store, calls, network, writes, request, parsing, written, generated>>

\* A caller calls initializeAuthFlow(config, redirectUri)
InitializeAuthFlow(cfg, redirectUri, state, verifier) ==
    LET result == initializeAuthFlow(cfg, redirectUri, state, verifier, now) IN
    /\ Len(flow.urls) < MaxUrls
    /\ \A issued \in flow.states : issued.state # state
    /\ flow' = [flow EXCEPT
                   !.states = IF result.tag = "Ok" THEN @ \cup {result.value.state} ELSE @,
                   !.urls = Append(@, [by |-> "initializeAuthFlow", cfg |-> cfg,
                                       redirectUri |-> redirectUri, at |-> now,
                                       result |-> result])]
    /\ UNCHANGED <<now, store, calls, network, writes, request, parsing, written, generated>>

\* A caller calls buildAuthorizationUrl(config, state) on an
\* AuthorizationState it holds
BuildAuthorizationUrl(cfg, state) ==
    /\ Len(flow.urls) < MaxUrls
    /\ state \in flow.states
    /\ flow' = [flow EXCEPT
                   !.urls = Append(@, [by |-> "buildAuthorizationUrl", cfg |-> cfg,
                                       state |-> state, at |-> now,
                                       result |-> buildAuthorizationUrl(cfg, state)])]
    /\ UNCHANGED <<now, store, calls, network, writes, request, parsing, written, generated>>

\* Flows started with createAuthorizationState, their callbacks, and token
\* requests built outside a callback
NextFlow ==
    \/ \E redirectUri \in RedirectUris, state \in StateValues, verifier \in Verifiers :
           StartFlow(redirectUri, state, verifier)
    \/ \E state \in flow.states, received \in ReceivedValues, code \in Codes,
          cfg \in TokenConfigs, maxAgeMs \in MaxAges :
           Callback(state, received, code, cfg, maxAgeMs)
    \/ \E state \in flow.states, code \in Codes, cfg \in TokenConfigs :
           BuildTokenRequest(state, code, cfg)
    \/ Tick

SpecFlow == Init /\ [][NextFlow]_vars

\* What generateState() and generateCodeVerifier() can draw next: values that
\* no flow under way has drawn
FreshDraws ==
    {draw \in [state : StateValues, verifier : Verifiers] :
        \A issued \in flow.states :
            /\ issued.state # draw.state
            /\ issued.pkce.codeVerifier # draw.verifier}

\* Flows started with initializeAuthFlow or createAuthorizationState, the
\* authorization URLs and the token requests built for them
NextAuthorize ==
    \/ \E cfg \in FlowConfigs, redirectUri \in RedirectUris, draw \in FreshDraws :
           InitializeAuthFlow(cfg, redirectUri, draw.state, draw.verifier)
    \/ \E redirectUri \in RedirectUris, draw \in FreshDraws :
           StartFlow(redirectUri, draw.state, draw.verifier)
    \/ \E cfg \in FlowConfigs, state \in flow.states : BuildAuthorizationUrl(cfg, state)
    \/ \E state \in flow.states, cfg \in TokenConfigs :
           BuildTokenRequest(state, "code1", cfg)

SpecAuthorize == Init /\ [][NextAuthorize]_vars

----------------------------------------------------------------------------
(* C20 *)

\* C20: an AuthorizationState is single-use: once a callback has been
\* accepted against it and a token request body built from it, the same
\* AuthorizationState is not accepted for a later callback and no second
\* token request body is built from it.
C20_StateIsSingleUse ==
    \A i, j \in 1..Len(flow.callbacks) :
        (/\ i < j
         /\ flow.callbacks[i].accepted
         /\ flow.callbacks[i].state = flow.callbacks[j].state)
        => ~flow.callbacks[j].accepted

----------------------------------------------------------------------------
(* C21 *)

\* C21: the flow reaches the token exchange only through its checks: every
\* token request body built from an AuthorizationState is built under a valid
\* config and after a callback against that state was accepted, i.e. its
\* state parameter equalled the issued one while the state was not expired;
\* a mismatch, an expired state or a config error produces no token request.
C21_TokenRequestOnlyAfterChecks ==
    \A r \in flow.requests :
        /\ validateOAuthConfig(r.cfg).tag = "Ok"
        /\ \E i \in 1..Len(flow.callbacks) :
               /\ flow.callbacks[i].state = r.state
               /\ flow.callbacks[i].accepted
               /\ flow.callbacks[i].at <= r.at

----------------------------------------------------------------------------
(* Vocabulary of the authorization URL properties *)

\* The results of initializeAuthFlow / buildAuthorizationUrl that are a URL,
\* each with the config and the AuthorizationState it was built from
BuiltUrls ==
    {[cfg |-> flow.urls[i].cfg,
      state |-> IF flow.urls[i].by = "initializeAuthFlow"
                THEN flow.urls[i].result.value.state
                ELSE flow.urls[i].state,
      url |-> IF flow.urls[i].by = "initializeAuthFlow"
              THEN flow.urls[i].result.value.url
              ELSE flow.urls[i].result] :
        i \in {j \in 1..Len(flow.urls) : flow.urls[j].result.tag \notin {"Err", "Thrown"}}}

\* The values the query of url carries under name
ParamValues(url, name) ==
    {url.searchParams[i].value :
        i \in {j \in 1..Len(url.searchParams) : url.searchParams[j].name = name}}

HasParam(url, name) == ParamValues(url, name) # {}

\* url carries name exactly once, with value
HasParamValue(url, name, value) ==
    /\ ParamValues(url, name) = {value}
    /\ Cardinality({i \in 1..Len(url.searchParams) : url.searchParams[i].name = name}) = 1

HasField(body, name) == name \in DOMAIN body

----------------------------------------------------------------------------
(* C22 *)

----------------------------------------------------------------------------
(* C23 *)

\* The parameters buildAuthorizationUrl always sets, each carried once
C23_Required(u) ==
    /\ HasParamValue(u.url, "response_type", "code")
    /\ HasParamValue(u.url, "client_id", u.cfg.clientId)
    /\ HasParamValue(u.url, "redirect_uri", u.state.redirectUri)
    /\ HasParamValue(u.url, "state", u.state.state)

\* code_challenge and code_challenge_method=S256 exactly when pkce is not false
C23_Pkce(u) ==
    /\ u.cfg.pkce # JBool(FALSE) =>
           /\ HasParamValue(u.url, "code_challenge", u.state.pkce.codeChallenge)
           /\ HasParamValue(u.url, "code_challenge_method", "S256")
    /\ u.cfg.pkce = JBool(FALSE) =>
           /\ ~HasParam(u.url, "code_challenge")
           /\ ~HasParam(u.url, "code_challenge_method")

----------------------------------------------------------------------------
(* C24 *)

\* clientId, authorizationUrl or tokenUrl is empty, or a URL does not parse
C24_BadConfig(cfg) ==
    \/ cfg.clientId = ""
    \/ cfg.authorizationUrl.text = ""
    \/ cfg.tokenUrl.text = ""
    \/ ~cfg.authorizationUrl.parses
    \/ ~cfg.tokenUrl.parses

\* C24: initializeAuthFlow(config, redirectUri) fails, creating no
\* AuthorizationState and building no URL, exactly when clientId,
\* authorizationUrl or tokenUrl is empty or either URL does not parse;
\* otherwise it succeeds with a newly created state whose redirectUri is the
\* argument and with the URL buildAuthorizationUrl(config, that state), whose
\* state parameter is the state's token.
C24_InitializeValidatesFirst ==
    [][(/\ Len(flow'.urls) = Len(flow.urls) + 1
        /\ flow'.urls[Len(flow'.urls)].by = "initializeAuthFlow")
       => LET call == flow'.urls[Len(flow'.urls)]
              result == call.result
          IN
          /\ result.tag = "Err" <=> C24_BadConfig(call.cfg)
          /\ result.tag = "Err" =>
                 /\ flow'.states = flow.states
                 /\ ~HasField(result, "value")
          /\ result.tag # "Err" =>
                 /\ result.tag = "Ok"
                 /\ result.value.state.redirectUri = call.redirectUri
                 /\ result.value.state.createdAt = now
                 /\ flow'.states = flow.states \cup {result.value.state}
                 /\ result.value.state \notin flow.states
                 /\ result.value.url = buildAuthorizationUrl(call.cfg, result.value.state)
                 /\ HasParamValue(result.value.url, "state", result.value.state.state)
      ]_vars

\* initializeAuthFlow has been called with a tokenUrl that does not parse:
\* it has failed and no AuthorizationState exists
C24_Witness ==
    \E i \in 1..Len(flow.urls) :
        /\ flow.urls[i].by = "initializeAuthFlow"
        /\ flow.urls[i].cfg.clientId = "c1"
        /\ flow.urls[i].cfg.authorizationUrl = AuthorizeUrl
        /\ flow.urls[i].cfg.tokenUrl = NotAUrl
        /\ flow.urls[i].result.tag = "Err"
        /\ flow.states = {}

----------------------------------------------------------------------------
(* C26 *)

\* C26: a bad static OAuthConfig (empty clientId, authorizationUrl or
\* tokenUrl, or an unparseable URL) is reported by validateOAuthConfig, and so
\* by initializeAuthFlow, as an error of the ConfigError variant, not of the
\* OAuthError variant used for authorization-server errors.
C26_BadConfigIsConfigError ==
    \A i \in 1..Len(flow.urls) :
        (/\ flow.urls[i].by = "initializeAuthFlow"
         /\ C24_BadConfig(flow.urls[i].cfg))
        => /\ flow.urls[i].result = validateOAuthConfig(flow.urls[i].cfg)
           /\ flow.urls[i].result.tag = "Err"
           /\ flow.urls[i].result.error.tag = "ConfigError"

----------------------------------------------------------------------------
(* C25 *)

\* C25: no token manager operation throws: when storage.get, set or delete
\* fails, getToken, setToken, deleteToken, getValidToken and getAuthHeader
\* each return a failure carrying a TokenError; none lets the exception out.
C25_NoOperationThrows ==
    /\ written.tag \in {"Pending", "Ok", "Err"}
    /\ written.tag = "Err" => written.error.tag = "TokenError"
    /\ \A c \in CallIds :
           /\ calls[c].tokenResult.tag # "Thrown"
           /\ calls[c].result.tag # "Thrown"
           /\ calls[c].header.tag # "Thrown"
           /\ calls[c].setResult.tag \in {"Pending", "Ok", "Err"}
           /\ calls[c].setResult.tag = "Err" => calls[c].setResult.error.tag = "TokenError"

----------------------------------------------------------------------------
(* C28 *)

\* C28: whenever getValidToken returns a success after a refresh, the store
\* holds under the key exactly the token it returns, and its setToken call
\* has succeeded: when persisting the refreshed token fails, getValidToken
\* does not report success.
C28_SuccessMeansPersisted ==
    [][\A c \in CallIds :
          (/\ calls[c].pc = "stored"
           /\ calls'[c].pc = "done"
           /\ calls'[c].result.tag = "Ok")
          => /\ calls[c].setResult.tag = "Ok"
             /\ store'[calls[c].mgr][calls[c].key] = calls'[c].result.value
      ]_vars

----------------------------------------------------------------------------
(* C29 *)

\* C29: a deleted token stays deleted: while getToken(key) fails with "Token
\* not found", only a caller's setToken makes the key present again; it stays
\* absent through every other step, also the completion of a getValidToken
\* call that read the token and started its refresh before the delete.
C29_DeletedStaysDeleted ==
    [][\A m \in Managers, k \in Keys :
          (/\ getToken(m, k) = NotFound
           /\ writes' = writes)
          => store'[m][k] = JUndef
      ]_vars

----------------------------------------------------------------------------
(* auth/tokenManager.ts against an authorization server that answers the   *)
(* refresh requests one after the other, the answers travelling back in any *)
(* order                                                                    *)

\* The requests the authorization server has answered
Answered == {r \in network : HasField(r, "answer")}

\* The authorization server processes the refresh request of call c and
\* issues its answer, the next one in its order of issue
Issue(c, resp) ==
    /\ calls[c].pc = "fetching"
    /\ \E r \in network \ Answered :
           /\ r.call = c
           /\ network' = (network \ {r}) \cup
                  {[call |-> r.call, seq |-> r.seq, req |-> r.req,
                    answer |-> resp, issued |-> Cardinality(Answered) + 1]}
    /\ UNCHANGED <<request, parsing, flow, now, store, calls, writes, written, generated>>

\* The answer issued for call c reaches httpFetch and refreshTokenRequest returns
Deliver(c) ==
    \E r \in Answered :
        /\ r.call = c
        /\ RefreshResponse(c, r.answer)

NextRotation ==
    \/ \E token \in TokenInputs : SetToken("m1", "u1", token)
    \/ \E c \in CallIds : Call(c, "m1", "u1")
    \/ \E c \in CallIds : Check(c)
    \/ \E c \in CallIds, resp \in Responses : Issue(c, resp)
    \/ \E c \in CallIds : Deliver(c)
    \/ \E c \in CallIds : Return(c)
    \/ Tick

SpecRotation == Init /\ [][NextRotation]_vars

----------------------------------------------------------------------------
(* C30 *)

\* The place of call c's refresh response in the server's order of issue
IssuedAt(c) == (CHOOSE r \in Answered : r.call = c).issued

\* C30: once getValidToken calls on the same key that each refreshed have all
\* returned successfully, the token stored under the key (when it is one of
\* theirs) is the one the authorization server issued last among their
\* refresh responses: an earlier-issued token never overwrites a later one.
C30_LatestIssuedIsStored ==
    (/\ \A c \in CallIds :
            /\ calls[c].pc = "done"
            /\ Refreshed(c)
            /\ calls[c].result.tag = "Ok"
     /\ \E c \in CallIds : store["m1"]["u1"] = calls[c].newToken)
    => LET last == CHOOSE c \in CallIds : \A d \in CallIds : IssuedAt(d) <= IssuedAt(c)
       IN store["m1"]["u1"] = calls[last].newToken

----------------------------------------------------------------------------
(* auth/pkce.ts: generateCodeVerifier *)

CODE_VERIFIER_LENGTH == 64

CODE_VERIFIER_CHARSET ==
    UpperCase \o LowerCase \o
    <<"0", "1", "2", "3", "4", "5", "6", "7", "8", "9", "-", ".", "_", "~">>

\* The values of a byte
ByteValues == 0..255

\* Buffers randomBytes(CODE_VERIFIER_LENGTH) can return: every byte the same
\* value, or the values counting up from any start
ByteBuffers ==
    {[i \in 1..CODE_VERIFIER_LENGTH |-> b] : b \in ByteValues}
    \cup {[i \in 1..CODE_VERIFIER_LENGTH |-> (b + i) % 256] : b \in ByteValues}

\* CODE_VERIFIER_CHARSET[byte % CODE_VERIFIER_CHARSET.length]
charOfByte(byte) == CODE_VERIFIER_CHARSET[(byte % Len(CODE_VERIFIER_CHARSET)) + 1]

\* generateCodeVerifier() when randomBytes returns bytes: the characters of
\* the string it returns
generateCodeVerifier(bytes) ==
    [i \in 1..CODE_VERIFIER_LENGTH |-> charOfByte(bytes[i])]

\* A caller calls generateCodeVerifier()
GenerateCodeVerifier(bytes) ==
    /\ generated' = [pc |-> "generated", bytes |-> bytes,
                     value |-> generateCodeVerifier(bytes)]
    /\ UNCHANGED <<now, store, calls, network, writes, request, parsing, flow, written>>

NextVerifier == \E bytes \in ByteBuffers : GenerateCodeVerifier(bytes)

SpecVerifier == Init /\ [][NextVerifier]_vars

----------------------------------------------------------------------------
(* C27 *)

\* The characters of the charset, and the byte values mapped to one of them
Charset == {CODE_VERIFIER_CHARSET[k] : k \in 1..Len(CODE_VERIFIER_CHARSET)}
BytesOf(char) == {byte \in ByteValues : charOfByte(byte) = char}

\* C27: generateCodeVerifier returns exactly 64 characters, each from the
\* 66-character set A-Z a-z 0-9 - . _ ~, and draws each character uniformly:
\* the mapping from a random byte to a character gives every character of
\* the set the same number of byte values.
C27_VerifierUniform ==
    generated.pc = "generated" =>
        /\ Len(generated.value) = 64
        /\ Cardinality(Charset) = 66
        /\ \A i \in 1..Len(generated.value) : generated.value[i] \in Charset
        /\ \A char \in Charset :
               Cardinality(BytesOf(char)) = Cardinality(BytesOf(CODE_VERIFIER_CHARSET[1]))

====
